---- MODULE Spec2Model ----
(***************************************************************************)
(* Model of used-cars.py: a single-pass script that loads dataset.csv,     *)
(* cleans the table (drop_duplicates, dropna, to_numeric, dropna(subset),  *)
(* str.strip().str.lower()), derives statistics and renders nine charts.   *)
(*                                                                         *)
(* Text is a sequence of one-character strings.  A cell of the in-memory   *)
(* table is a record [k, s, n, d]: k = "nan" (missing), k = "str" (text s) *)
(* or k = "num" (the rational n / d).                                      *)
(***************************************************************************)
EXTENDS Integers, Sequences, FiniteSets, TLC

VARIABLES raw, pc, data, out, statistics, charts, err

vars == <<raw, pc, data, out, statistics, charts, err>>

(* ------------------------------ bounds -------------------------------- *)

\* Largest number of data rows in the input file.
MaxRows == 3

(* ------------------------- program constants -------------------------- *)

numeric_columns == <<"price", "mileage", "year">>

categorical_columns == <<"model", "fuel_type", "transmission", "color", "city">>

\* A column of the file that the script never names.
ExtraColumn == "engine"

Lakh == 100000

UpperLakhs == 300

LowerLakhs == 1

TopModels == 15

TopColors == 15

TopCities == 10

Range(f) == {f[i] : i \in DOMAIN f}

DeclaredColumns == Range(numeric_columns) \cup Range(categorical_columns)

AllColumns == DeclaredColumns \cup {ExtraColumn}

(* ------------------------------- cells -------------------------------- *)

NaN == [k |-> "nan", s |-> <<>>, n |-> 0, d |-> 1]

Str(t) == [k |-> "str", s |-> t, n |-> 0, d |-> 1]

RECURSIVE Gcd(_, _)
Gcd(a, b) == IF b = 0 THEN a ELSE Gcd(b, a % b)

\* The number a / b (b > 0, a >= 0), in lowest terms so that equal numbers
\* are equal cells.
Rat(a, b) == LET g == Gcd(a, b) IN [k |-> "num", s |-> <<>>, n |-> a \div g, d |-> b \div g]

Num(i) == Rat(i, 1)

IsNaN(c) == c.k = "nan"

\* a <= b for two "num" cells.
Leq(a, b) == a.n * b.d <= b.n * a.d

(* -------------------------------- text -------------------------------- *)

Digits == {"0", "1", "2", "3", "4", "5", "6", "7", "8", "9"}

DigitVal(ch) == CASE ch = "0" -> 0 [] ch = "1" -> 1 [] ch = "2" -> 2 [] ch = "3" -> 3
                  [] ch = "4" -> 4 [] ch = "5" -> 5 [] ch = "6" -> 6 [] ch = "7" -> 7
                  [] ch = "8" -> 8 [] ch = "9" -> 9

\* Text that the numeric parser accepts.  Only unsigned decimal integers are
\* spelled by the inputs of this model (leading zeros allowed).
IsNumericText(t) == Len(t) > 0 /\ \A i \in 1..Len(t) : t[i] \in Digits

RECURSIVE ParseInt(_)
ParseInt(t) == IF t = <<>> THEN 0
               ELSE 10 * ParseInt(SubSeq(t, 1, Len(t) - 1)) + DigitVal(t[Len(t)])

LowerChar(ch) == CASE ch = "A" -> "a" [] ch = "B" -> "b" [] ch = "C" -> "c" [] OTHER -> ch

\* str.lower()
Lower(t) == [i \in 1..Len(t) |-> LowerChar(t[i])]

RECURSIVE LStrip(_)
LStrip(t) == IF t # <<>> /\ t[1] = " " THEN LStrip(Tail(t)) ELSE t

RECURSIVE RStrip(_)
RStrip(t) == IF t # <<>> /\ t[Len(t)] = " " THEN RStrip(SubSeq(t, 1, Len(t) - 1)) ELSE t

\* str.strip()
Strip(t) == RStrip(LStrip(t))

(* ------------------------------- tables ------------------------------- *)

\* A table: its column labels, the dtype of each column ("object" or
\* "numeric"), and its rows in order, each a function from the labels to cells.
Table(cols, dtype, rows) == [cols |-> cols, dtype |-> dtype, rows |-> rows]

EmptyTable == Table({}, <<>>, <<>>)

\* The rows of `rows` whose index is in S, in order.
RECURSIVE Pick(_, _, _)
Pick(rows, S, i) == IF i > Len(rows) THEN <<>>
                    ELSE (IF i \in S THEN <<rows[i]>> ELSE <<>>) \o Pick(rows, S, i + 1)

HasNaN(row, cols) == \E c \in cols : IsNaN(row[c])

(* ------------------------------ read_csv ------------------------------ *)

\* A column whose every non-empty field is a number is read as numbers; the
\* columns of a file with a header and no lines are of object dtype.
InferNumeric(csv, c) ==
    /\ Len(csv.rows) > 0
    /\ \A i \in 1..Len(csv.rows) : csv.rows[i][c] = <<>> \/ IsNumericText(csv.rows[i][c])

\* An empty field is read as missing.
ReadField(t, numeric) == IF t = <<>> THEN NaN
                         ELSE IF numeric THEN Num(ParseInt(t)) ELSE Str(t)

\* pd.read_csv on a readable file with header csv.cols and text fields csv.rows.
ReadCsv(csv) ==
    Table(csv.cols,
          [c \in csv.cols |-> IF InferNumeric(csv, c) THEN "numeric" ELSE "object"],
          [i \in 1..Len(csv.rows) |->
              [c \in csv.cols |-> ReadField(csv.rows[i][c], InferNumeric(csv, c))]])

(* -------------------------- cleaning pipeline -------------------------- *)

\* Variant: the last occurrence of each distinct row is the one kept.
LastOccurrences(rows) ==
    {i \in 1..Len(rows) : \A j \in (i + 1)..Len(rows) : rows[j] # rows[i]}

\* Indices of the first occurrence of each distinct row.
FirstOccurrences(rows) == {i \in 1..Len(rows) : \A j \in 1..(i - 1) : rows[j] # rows[i]}

\* data.drop_duplicates()
DropDuplicates(t) == Table(t.cols, t.dtype, Pick(t.rows, FirstOccurrences(t.rows), 1))

\* data.isnull().sum().sum()
NullCount(t) ==
    Cardinality({p \in (1..Len(t.rows)) \X t.cols : IsNaN(t.rows[p[1]][p[2]])})

\* data.dropna(): rows with a missing value in any column go.
DropNa(t) ==
    Table(t.cols, t.dtype,
          Pick(t.rows, {i \in 1..Len(t.rows) : ~HasNaN(t.rows[i], t.cols)}, 1))

\* pd.to_numeric(value, errors='coerce') on one cell.
ToNumeric(c) == IF c.k = "str"
                THEN (IF IsNumericText(c.s) THEN Num(ParseInt(c.s)) ELSE NaN)
                ELSE c

\* The loop over numeric_columns: a column that is present is coerced.
CoerceNumeric(t) ==
    LET hit == Range(numeric_columns) \cap t.cols IN
    Table(t.cols,
          [c \in t.cols |-> IF c \in hit THEN "numeric" ELSE t.dtype[c]],
          [i \in 1..Len(t.rows) |->
              [c \in t.cols |-> IF c \in hit THEN ToNumeric(t.rows[i][c])
                                ELSE t.rows[i][c]]])

\* dropna(subset=...) raises KeyError when a label of the subset is no column.
SubsetKeyError(t) == ~(Range(numeric_columns) \subseteq t.cols)

\* data.dropna(subset=numeric_columns), when every label is a column.
DropInvalid(t) ==
    Table(t.cols, t.dtype,
          Pick(t.rows,
               {i \in 1..Len(t.rows) : ~HasNaN(t.rows[i], Range(numeric_columns))}, 1))

\* The .str accessor raises AttributeError on a column that is not of
\* object dtype.
StrAccessorError(t) ==
    \E c \in Range(categorical_columns) \cap t.cols : t.dtype[c] # "object"

\* Variant: the value is trimmed but its letter case is kept.
NormalizeCellNoLower(c) == IF c.k = "str" THEN Str(Strip(c.s)) ELSE NaN

\* value.strip().lower() on one cell of an object column; a cell that is
\* not text comes out missing.
NormalizeCell(c) == IF c.k = "str" THEN Str(Lower(Strip(c.s))) ELSE NaN

\* The categorical columns the loop has normalized when it ends: all of
\* them, or those before the first column on which .str raises.
NormalizedColumns(t) ==
    {categorical_columns[i] : i \in
        {i \in DOMAIN categorical_columns :
            \A j \in 1..i : categorical_columns[j] \in t.cols
                              => t.dtype[categorical_columns[j]] = "object"}}

\* The loop over categorical_columns: a column that is present is normalized.
NormalizeCategorical(t) ==
    LET hit == NormalizedColumns(t) \cap t.cols IN
    Table(t.cols, t.dtype,
          [i \in 1..Len(t.rows) |->
              [c \in t.cols |-> IF c \in hit THEN NormalizeCell(t.rows[i][c])
                                ELSE t.rows[i][c]]])

(* ------------------------------ statistics ----------------------------- *)

RECURSIVE SumN(_, _, _)
\* Sum of the numerators of column c over rows i..Len(rows) (whole numbers).
SumN(rows, c, i) == IF i > Len(rows) THEN 0 ELSE rows[i][c].n + SumN(rows, c, i + 1)

\* The smallest / largest cell of a non-empty column.
ColMin(rows, c) ==
    CHOOSE v \in {rows[i][c] : i \in 1..Len(rows)} :
        \A i \in 1..Len(rows) : Leq(v, rows[i][c])

ColMax(rows, c) ==
    CHOOSE v \in {rows[i][c] : i \in 1..Len(rows)} :
        \A i \in 1..Len(rows) : Leq(rows[i][c], v)

\* data['price'] and the like raise KeyError when the column is absent.
StatsKeyError(t) == ~(Range(numeric_columns) \subseteq t.cols)

\* int(data['year'].min()) raises ValueError on an empty table (int(nan)).
StatsValueError(t) == Len(t.rows) = 0

\* The statistics record; the means are kept exact (the two-decimal display
\* formatting is not modelled).
Statistics(t) ==
    [total_cars |-> Len(t.rows),
     average_price_lakhs |-> Rat(SumN(t.rows, "price", 1), Len(t.rows) * Lakh),
     average_mileage |-> Rat(SumN(t.rows, "mileage", 1), Len(t.rows)),
     oldest_year |-> ColMin(t.rows, "year"),
     newest_year |-> ColMax(t.rows, "year")]

(* -------------------------------- charts ------------------------------- *)

Point(x, y) == [x |-> x, y |-> y]

Column(t, c) == [i \in 1..Len(t.rows) |-> t.rows[i][c]]

Count(vals, v) == Cardinality({i \in 1..Len(vals) : vals[i] = v})

\* Insert p into ps, ordered by descending y, after its equals.
RECURSIVE InsertDesc(_, _)
InsertDesc(ps, p) == IF ps = <<>> THEN <<p>>
                     ELSE IF Leq(p.y, Head(ps).y) THEN <<Head(ps)>> \o InsertDesc(Tail(ps), p)
                     ELSE <<p>> \o ps

RECURSIVE SortDesc(_, _)
SortDesc(ps, i) == IF i = 0 THEN <<>> ELSE InsertDesc(SortDesc(ps, i - 1), ps[i])

\* Insert p into ps, ordered by ascending x, after its equals.
RECURSIVE InsertAsc(_, _)
InsertAsc(ps, p) == IF ps = <<>> THEN <<p>>
                    ELSE IF Leq(Head(ps).x, p.x) THEN <<Head(ps)>> \o InsertAsc(Tail(ps), p)
                    ELSE <<p>> \o ps

RECURSIVE SortAsc(_, _)
SortAsc(ps, i) == IF i = 0 THEN <<>> ELSE InsertAsc(SortAsc(ps, i - 1), ps[i])

\* data[c].value_counts(): one point per distinct value with its count, most
\* frequent first; equal counts stay in order of first appearance.
ValueCounts(t, c) ==
    LET vals     == Column(t, c)
        distinct == Pick(vals, FirstOccurrences(vals), 1)
        ps       == [i \in 1..Len(distinct) |->
                        Point(distinct[i], Num(Count(vals, distinct[i])))]
    IN  SortDesc(ps, Len(ps))

\* s.head(n)
HeadN(s, n) == SubSeq(s, 1, IF n < Len(s) THEN n ELSE Len(s))

\* price / 100_000 on one cell.
InLakhs(c) == IF c.k = "num" THEN Rat(c.n, c.d * Lakh) ELSE NaN

\* data['price_in_lakhs'] = data['price'] / 100_000 : the column is added to
\* (or overwritten in) the table itself.
WithPriceInLakhs(t) ==
    LET cols == t.cols \cup {"price_in_lakhs"} IN
    Table(cols,
          [c \in cols |-> IF c = "price_in_lakhs" THEN "numeric" ELSE t.dtype[c]],
          [i \in 1..Len(t.rows) |->
              [c \in cols |-> IF c = "price_in_lakhs" THEN InLakhs(t.rows[i]["price"])
                              ELSE t.rows[i][c]]])

\* Variant: the ends of the price range are left out.
InPriceRangeStrict(row) ==
    /\ row["price_in_lakhs"].k = "num"
    /\ ~Leq(Num(UpperLakhs), row["price_in_lakhs"])
    /\ ~Leq(row["price_in_lakhs"], Num(LowerLakhs))

\* (price_in_lakhs <= 300) & (price_in_lakhs >= 1)
InPriceRange(row) ==
    /\ row["price_in_lakhs"].k = "num"
    /\ Leq(row["price_in_lakhs"], Num(UpperLakhs))
    /\ Leq(Num(LowerLakhs), row["price_in_lakhs"])

\* filtered_data of the Mileage vs Price section (t has price_in_lakhs).
FilteredData(t) ==
    Table(t.cols, t.dtype,
          Pick(t.rows, {i \in 1..Len(t.rows) : InPriceRange(t.rows[i])}, 1))

\* data.groupby('year')['price'].mean() / 100_000, by ascending year.
AvgPriceYear(t) ==
    LET years    == Column(t, "year")
        distinct == Pick(years, FirstOccurrences(years), 1)
        of(y)    == Pick(t.rows, {i \in 1..Len(t.rows) : t.rows[i]["year"] = y}, 1)
        ps       == [i \in 1..Len(distinct) |->
                        Point(distinct[i],
                              Rat(SumN(of(distinct[i]), "price", 1),
                                  Len(of(distinct[i])) * Lakh))]
    IN  SortAsc(ps, Len(ps))

\* The data drawn by each chart section, from the table as it then is.
ModelChart(t) == HeadN(ValueCounts(t, "model"), TopModels)

FuelChart(t) == ValueCounts(t, "fuel_type")

TransmissionChart(t) == ValueCounts(t, "transmission")

PriceChart(t) ==
    LET u == WithPriceInLakhs(t) IN
    [i \in 1..Len(u.rows) |-> Point(u.rows[i]["price_in_lakhs"], u.rows[i]["price_in_lakhs"])]

MileageChart(t) ==
    LET f == FilteredData(WithPriceInLakhs(t)) IN
    [i \in 1..Len(f.rows) |-> Point(f.rows[i]["mileage"], f.rows[i]["price_in_lakhs"])]

YearChart(t) == LET ps == ValueCounts(t, "year") IN SortAsc(ps, Len(ps))

ColorChart(t) == HeadN(ValueCounts(t, "color"), TopColors)

AvgPriceChart(t) == AvgPriceYear(t)

CityChart(t) == HeadN(ValueCounts(t, "city"), TopCities)

\* The file name each section's download button exports to.
FileName(section) ==
    CASE section = "model" -> "model_count.html"
      [] section = "fuel_type" -> "fuel_type_distribution.html"
      [] section = "transmission" -> "transmission_distribution.html"
      [] section = "price" -> "price_distribution.html"
      [] section = "mileage" -> "mileage_vs_price.html"
      [] section = "year" -> "car_availability_trends.html"
      [] section = "color" -> "car_colors.html"
      [] section = "avg_price" -> "average_price_by_year.html"
      [] section = "city" -> "most_common_cities.html"

Chart(section, d) == [section |-> section, file |-> FileName(section), data |-> d]

\* The columns each section's `if ... in data.columns` asks for.
Needs(section) ==
    CASE section = "model" -> {"model"}
      [] section = "fuel_type" -> {"fuel_type"}
      [] section = "transmission" -> {"transmission"}
      [] section = "price" -> {"price"}
      [] section = "mileage" -> {"mileage", "price"}
      [] section = "year" -> {"year"}
      [] section = "color" -> {"color"}
      [] section = "avg_price" -> {"year", "price"}
      [] section = "city" -> {"city"}

\* The sections in the order the script runs them.
SectionOrder ==
    <<"model", "fuel_type", "transmission", "price", "mileage", "year", "color",
      "avg_price", "city">>

ChartData(section, t) ==
    CASE section = "model" -> ModelChart(t)
      [] section = "fuel_type" -> FuelChart(t)
      [] section = "transmission" -> TransmissionChart(t)
      [] section = "price" -> PriceChart(t)
      [] section = "mileage" -> MileageChart(t)
      [] section = "year" -> YearChart(t)
      [] section = "color" -> ColorChart(t)
      [] section = "avg_price" -> AvgPriceChart(t)
      [] section = "city" -> CityChart(t)

(* -------------------------------- inputs ------------------------------- *)

\* A well-formed listing, as the text of one line of the file.
BaseRow ==
    [c \in AllColumns |->
        CASE c = "price" -> <<"2", "0", "0", "0", "0", "0">>
          [] c = "mileage" -> <<"1", "2">>
          [] c = "year" -> <<"2", "0", "1", "5">>
          [] OTHER -> <<"a">>]

\* The lines an input file is made of: the well-formed listing and its
\* variations (letter case and padding, another spelling of the same number,
\* text in a numeric field, empty fields, prices around the chart's range,
\* a blank city, a model name made of digits, another year).
RowPool ==
    { BaseRow,
      [BaseRow EXCEPT !["color"] = <<" ", "A">>],
      [BaseRow EXCEPT !["year"] = <<"0", "2", "0", "1", "5">>],
      [BaseRow EXCEPT !["year"] = <<"a", "b", "c">>],
      [BaseRow EXCEPT !["engine"] = <<>>, !["mileage"] = <<>>],
      [BaseRow EXCEPT !["price"] = <<"9", "9", "9", "9", "9">>, !["city"] = <<" ">>],
      [BaseRow EXCEPT !["price"] = <<"1", "0", "0", "0", "0", "0">>],
      [BaseRow EXCEPT !["price"] = <<"3", "0", "0", "0", "0", "0", "0", "0">>],
      [BaseRow EXCEPT !["price"] = <<"3", "0", "0", "0", "0", "0", "0", "1">>,
                      !["model"] = <<"2", "0">>],
      [BaseRow EXCEPT !["year"] = <<"2", "0", "1", "6">>, !["model"] = <<"B", " ">>] }

\* The lines of the files that lack one declared column.
SmallPool ==
    { BaseRow,
      [BaseRow EXCEPT !["color"] = <<" ", "A">>],
      [BaseRow EXCEPT !["year"] = <<"a", "b", "c">>],
      [BaseRow EXCEPT !["year"] = <<"2", "0", "1", "6">>, !["model"] = <<"B", " ">>] }

SeqsUpTo(S, n) == UNION {[1..k -> S] : k \in 0..n}

\* The file with header cols and the given lines, cut down to those columns.
Csv(cols, lines) ==
    [cols |-> cols, rows |-> [i \in 1..Len(lines) |-> [c \in cols |-> lines[i][c]]]]

\* The input files: every column present, or one declared column absent.
RawTables ==
    {Csv(AllColumns, lines) : lines \in SeqsUpTo(RowPool, MaxRows)}
    \cup UNION {{Csv(AllColumns \ {c}, lines) : lines \in SeqsUpTo(SmallPool, MaxRows)}
                    : c \in DeclaredColumns}

(* ------------------------------- the run ------------------------------- *)

Msg(tag, n) == [tag |-> tag, n |-> n]

Init ==
    /\ raw \in RawTables
    /\ pc = "load"
    /\ data = EmptyTable
    /\ out = <<>>
    /\ statistics = <<>>
    /\ charts = <<>>
    /\ err = ""

\* An exception that nothing catches ends the run.
Crash(e) == pc' = "crashed" /\ err' = e

\* Variant: the error is shown but the run is not stopped.
LoadNoStop ==
    /\ pc = "load"
    /\ \E readable \in BOOLEAN :
          IF readable
          THEN /\ data' = ReadCsv(raw)
               /\ out' = Append(out, Msg("loaded", 0))
               /\ err' = err
          ELSE /\ out' = Append(out, Msg("error", 0))
               /\ err' = "load"
               /\ data' = data
    /\ pc' = "dedup"
    /\ UNCHANGED <<raw, statistics, charts>>

\* try: data = pd.read_csv(file_path) ... except: st.error(...); st.stop()
Load ==
    /\ pc = "load"
    /\ \E readable \in BOOLEAN :
          IF readable
          THEN /\ data' = ReadCsv(raw)
               /\ out' = Append(out, Msg("loaded", 0))
               /\ pc' = "dedup"
               /\ err' = err
          ELSE /\ out' = Append(out, Msg("error", 0))
               /\ pc' = "stopped"
               /\ err' = "load"
               /\ data' = data
    /\ UNCHANGED <<raw, statistics, charts>>

\* Remove duplicates
RemoveDuplicates ==
    /\ pc = "dedup"
    /\ data' = DropDuplicates(data)
    /\ out' = out \o <<Msg("cleaning", 0),
                       Msg("duplicates_removed", Len(data.rows) - Len(data'.rows))>>
    /\ pc' = "missing"
    /\ UNCHANGED <<raw, statistics, charts, err>>

\* Handle missing values
HandleMissing ==
    /\ pc = "missing"
    /\ data' = DropNa(data)
    /\ out' = Append(out, Msg("missing_count", NullCount(data)))
    /\ pc' = "coerce"
    /\ UNCHANGED <<raw, statistics, charts, err>>

\* Convert numerical columns to proper types
ConvertNumeric ==
    /\ pc = "coerce"
    /\ data' = CoerceNumeric(data)
    /\ pc' = "invalid"
    /\ UNCHANGED <<raw, out, statistics, charts, err>>

\* Handle invalid rows
RemoveInvalid ==
    /\ pc = "invalid"
    /\ IF SubsetKeyError(data)
       THEN Crash("KeyError") /\ UNCHANGED <<data, out>>
       ELSE /\ data' = DropInvalid(data)
            /\ out' = Append(out, Msg("invalid_rows_removed",
                                      Len(data.rows) - Len(data'.rows)))
            /\ pc' = "normalize"
            /\ err' = err
    /\ UNCHANGED <<raw, statistics, charts>>

\* Normalize categorical columns
Normalize ==
    /\ pc = "normalize"
    /\ data' = NormalizeCategorical(data)
    /\ IF StrAccessorError(data)
       THEN Crash("AttributeError") /\ out' = out
       ELSE /\ out' = Append(out, Msg("cleaning_complete", 0))
            /\ pc' = "preview"
            /\ err' = err
    /\ UNCHANGED <<raw, statistics, charts>>

\* Preview Cleaned Data, Total Used Cars
Preview ==
    /\ pc = "preview"
    /\ out' = out \o <<Msg("preview", Len(data.rows)), Msg("total_cars", Len(data.rows))>>
    /\ pc' = "statistics"
    /\ UNCHANGED <<raw, data, statistics, charts, err>>

\* Basic Statistical Analysis
BasicStatistics ==
    /\ pc = "statistics"
    /\ IF StatsKeyError(data)
       THEN Crash("KeyError") /\ UNCHANGED <<out, statistics>>
       ELSE IF StatsValueError(data)
       THEN Crash("ValueError") /\ UNCHANGED <<out, statistics>>
       ELSE /\ statistics' = <<Statistics(data)>>
            /\ out' = Append(out, Msg("statistics", 0))
            /\ pc' = "chart_model"
            /\ err' = err
    /\ UNCHANGED <<raw, data, charts>>

\* A chart section that only reads the table: skipped when a column it
\* needs is absent.
Section(at, next, section) ==
    /\ pc = at
    /\ charts' = IF Needs(section) \subseteq data.cols
                 THEN Append(charts, Chart(section, ChartData(section, data)))
                 ELSE charts
    /\ pc' = next
    /\ UNCHANGED <<raw, data, out, statistics, err>>

\* A chart section that first writes price_in_lakhs into the table.
LakhsSection(at, next, section) ==
    /\ pc = at
    /\ IF Needs(section) \subseteq data.cols
       THEN /\ data' = WithPriceInLakhs(data)
            /\ charts' = Append(charts, Chart(section, ChartData(section, data)))
       ELSE UNCHANGED <<data, charts>>
    /\ pc' = next
    /\ UNCHANGED <<raw, out, statistics, err>>

\* Car Model Count Bar Chart
ModelSection == Section("chart_model", "chart_fuel", "model")

\* Fuel Type Distribution Pie Chart
FuelSection == Section("chart_fuel", "chart_transmission", "fuel_type")

\* Transmission Type Distribution Pie Chart
TransmissionSection == Section("chart_transmission", "chart_price", "transmission")

\* Price Distribution Analysis
PriceSection == LakhsSection("chart_price", "chart_mileage", "price")

\* Mileage Analysis
MileageSection == LakhsSection("chart_mileage", "chart_year", "mileage")

\* Car Availability Trends Over Years
YearSection == Section("chart_year", "chart_color", "year")

\* Variant: the colour section is not guarded by the column's presence.
ColorSectionUnguarded ==
    /\ pc = "chart_color"
    /\ charts' = Append(charts, Chart("color", <<>>))
    /\ pc' = "chart_avg_price"
    /\ UNCHANGED <<raw, data, out, statistics, err>>

\* Most Common Car Colors
ColorSection == Section("chart_color", "chart_avg_price", "color")

\* Statistical: Average Price by Year
AvgPriceSection == Section("chart_avg_price", "chart_city", "avg_price")

\* Statistical: Most Common Cities for Cars
CitySection == Section("chart_city", "success", "city")

\* st.success("Analysis complete!")
Success ==
    /\ pc = "success"
    /\ out' = Append(out, Msg("success", 0))
    /\ pc' = "done"
    /\ UNCHANGED <<raw, data, statistics, charts, err>>

Next ==
    \/ Load
    \/ RemoveDuplicates
    \/ HandleMissing
    \/ ConvertNumeric
    \/ RemoveInvalid
    \/ Normalize
    \/ Preview
    \/ BasicStatistics
    \/ ModelSection
    \/ FuelSection
    \/ TransmissionSection
    \/ PriceSection
    \/ MileageSection
    \/ YearSection
    \/ ColorSection
    \/ AvgPriceSection
    \/ CitySection
    \/ Success

Spec == Init /\ [][Next]_vars

(* ----------------------- the run as a function ------------------------ *)

\* The table the five cleaning steps make of a loaded table.
CleanTable(t) ==
    NormalizeCategorical(DropInvalid(CoerceNumeric(DropNa(DropDuplicates(t)))))

\* The cleaning of a loaded table raises.
CleaningFails(t) ==
    \/ SubsetKeyError(t)
    \/ StrAccessorError(DropInvalid(CoerceNumeric(DropNa(DropDuplicates(t)))))

\* The charts a run on a readable file renders, in order; none when the run
\* ends before the chart sections.
RunCharts(csv) ==
    LET t == ReadCsv(csv) IN
    IF CleaningFails(t) \/ StatsValueError(CleanTable(t)) THEN <<>>
    ELSE LET secs == SelectSeq(SectionOrder, LAMBDA x : Needs(x) \subseteq t.cols)
         IN  [i \in 1..Len(secs) |-> Chart(secs[i], ChartData(secs[i], CleanTable(t)))]

\* The file csv without column c.
WithoutColumn(csv, c) ==
    [cols |-> csv.cols \ {c},
     rows |-> [i \in 1..Len(csv.rows) |-> [x \in csv.cols \ {c} |-> csv.rows[i][x]]]]

\* The table t without column c.
TableWithout(t, c) ==
    Table(t.cols \ {c}, [x \in t.cols \ {c} |-> t.dtype[x]],
          [i \in 1..Len(t.rows) |-> [x \in t.cols \ {c} |-> t.rows[i][x]]])

(* ------------------------------ properties ----------------------------- *)

\* The number reported by the message with the given tag (-1 if none).
Reported(tag) ==
    IF \E i \in 1..Len(out) : out[i].tag = tag
    THEN out[CHOOSE i \in 1..Len(out) : out[i].tag = tag].n
    ELSE -1

Upper == {"A", "B", "C"}

\* Text with no leading or trailing blank and no upper-case letter.
TrimmedLower(t) ==
    /\ t # <<>> => t[1] # " " /\ t[Len(t)] # " "
    /\ \A i \in 1..Len(t) : t[i] \notin Upper

\* C1: when the cleaning pipeline has run to completion, every row of the
\* clean table has no missing value in any column, numbers in price, mileage
\* and year, and trimmed lower-case text in every categorical column.
C1_CleanRowsWellFormed ==
    pc = "preview" =>
        \A i \in 1..Len(data.rows) :
            /\ \A c \in data.cols : ~IsNaN(data.rows[i][c])
            /\ \A c \in Range(numeric_columns) :
                  c \in data.cols /\ data.rows[i][c].k = "num"
            /\ \A c \in Range(categorical_columns) \cap data.cols :
                  data.rows[i][c].k = "str" /\ TrimmedLower(data.rows[i][c].s)

\* A completed cleaning that dropped a row and kept one whose colour was
\* written padded and in upper case.
C1_Witness ==
    /\ pc = "preview"
    /\ "color" \in raw.cols
    /\ 0 < Len(data.rows) /\ Len(data.rows) < Len(raw.rows)
    /\ raw.rows[1]["color"] = <<" ", "A">>
    /\ data.rows[1]["color"] = Str(<<"a">>)

\* C2: after the full cleaning pipeline the clean table holds no two rows
\* that are equal in every column.
C2_NoDuplicateRows ==
    pc = "preview" =>
        \A i, j \in 1..Len(data.rows) : i # j => data.rows[i] # data.rows[j]

\* C3: cleaning the clean table again returns the same table, and every
\* step of the second run reports zero rows removed.
C3_Idempotent ==
    pc = "preview" =>
        /\ ~CleaningFails(data)
        /\ CleanTable(data) = data
        /\ Len(data.rows) - Len(DropDuplicates(data).rows) = 0
        /\ NullCount(DropDuplicates(data)) = 0
        /\ Len(DropInvalid(CoerceNumeric(DropNa(DropDuplicates(data)))).rows)
              = Len(DropNa(DropDuplicates(data)).rows)

\* C4: with a declared column absent from the input, the steps that name it
\* do nothing for it and the cleaning raises no error for the absent label.
C4_AbsentColumnNoError ==
    (\E c \in DeclaredColumns : c \notin raw.cols) =>
        ~(pc = "crashed" /\ err = "KeyError")

C6_LoadFailureHalts ==
    err = "load" =>
        /\ pc = "stopped"
        /\ out = <<Msg("error", 0)>>
        /\ data = EmptyTable
        /\ statistics = <<>>
        /\ charts = <<>>

\* A failed load of a file that has lines.
C6_Witness == err = "load" /\ pc = "stopped" /\ Len(raw.rows) > 0

\* The first position at which row r stands in rows.
FirstIndex(rows, r) == CHOOSE i \in 1..Len(rows) :
                          rows[i] = r /\ \A j \in 1..(i - 1) : rows[j] # r

\* C7: deduplication keeps one row for each distinct row, in the order of
\* their first occurrences, and reports the row count minus the number of
\* distinct rows.
C7_DedupKeepsFirst ==
    pc = "missing" =>
        LET L == ReadCsv(raw).rows
            D == data.rows
        IN  /\ Len(D) = Cardinality(Range(L))
            /\ Range(D) = Range(L)
            /\ \A a, b \in 1..Len(D) :
                  a < b => FirstIndex(L, D[a]) < FirstIndex(L, D[b])
            /\ Reported("duplicates_removed") = Len(L) - Cardinality(Range(L))

\* Rows [A, B, A] deduplicated to [A, B] with one row removed.
C7_Witness ==
    /\ pc = "missing"
    /\ Len(raw.rows) = 3
    /\ raw.rows[1] = raw.rows[3] /\ raw.rows[1] # raw.rows[2]
    /\ Len(data.rows) = 2
    /\ Reported("duplicates_removed") = 1

\* The rows, after deduplication, with a value in every column and text
\* that is no number in a numeric column.
BadNumericRows ==
    LET t == DropDuplicates(ReadCsv(raw)) IN
    {i \in 1..Len(t.rows) :
        /\ ~HasNaN(t.rows[i], t.cols)
        /\ \E c \in Range(numeric_columns) \cap t.cols :
              t.rows[i][c].k = "str" /\ ~IsNumericText(t.rows[i][c].s)}

\* C8: a row with a value in every column and a non-numeric price, mileage
\* or year is not counted as missing, is removed by invalid-row removal and
\* counts for exactly one in the invalid rows reported.
C8_InvalidRowCounted ==
    (pc \notin {"load", "stopped", "dedup", "missing", "coerce", "invalid"}
        /\ BadNumericRows # {}) =>
        LET t == DropDuplicates(ReadCsv(raw)) IN
        /\ Reported("missing_count") = NullCount(t)
        /\ Reported("invalid_rows_removed") = Cardinality(BadNumericRows)
        /\ Len(data.rows) = Len(DropNa(t).rows) - Cardinality(BadNumericRows)

\* C9: the mileage-vs-price scatter is drawn from exactly the rows of the
\* clean table with 100,000 <= price <= 30,000,000, in their order.
C9_ScatterRows ==
    pc = "chart_year" =>
        LET clean == CleanTable(ReadCsv(raw)).rows
            keep  == Pick(clean,
                          {i \in 1..Len(clean) :
                              /\ 100000 * clean[i]["price"].d <= clean[i]["price"].n
                              /\ clean[i]["price"].n <= 30000000 * clean[i]["price"].d},
                          1)
            drawn == charts[Len(charts)]
        IN  /\ drawn.section = "mileage"
            /\ Len(drawn.data) = Len(keep)
            /\ \A i \in 1..Len(keep) :
                  /\ drawn.data[i].x = keep[i]["mileage"]
                  /\ drawn.data[i].y.n * keep[i]["price"].d * 100000
                        = keep[i]["price"].n * drawn.data[i].y.d

\* A scatter that leaves out a price just under and a price just over the
\* range and draws a price at an end of the range.
C9_Witness ==
    /\ pc = "chart_year"
    /\ Len(data.rows) = 3
    /\ \E i \in 1..3 : data.rows[i]["price"] = Num(99999)
    /\ \E i \in 1..3 : data.rows[i]["price"] = Num(30000001)
    /\ \E i \in 1..3 : data.rows[i]["price"] \in {Num(100000), Num(30000000)}
    /\ Len(charts[Len(charts)].data) = 1

\* C10: once cleaning has finished, the reporting stage leaves the table as
\* it was at the end of cleaning: same columns, rows, order and values.
C10_TableUnchangedByReporting ==
    pc \in {"preview", "statistics", "chart_model", "chart_fuel", "chart_transmission",
            "chart_price", "chart_mileage", "chart_year", "chart_color",
            "chart_avg_price", "chart_city", "success", "done"} =>
        data = CleanTable(ReadCsv(raw))

====
